---- MODULE Spec2Model ----
(***************************************************************************)
(* Model of nextpnr's BaseArch (common/base_arch.h): the default           *)
(* implementations of bel/wire/pip binding over the three maps             *)
(* base_bel2cell, base_wire2net and base_pip2net, together with the        *)
(* CellInfo and NetInfo fields those implementations write.                *)
(*                                                                         *)
(* A std::unordered_map is a function whose domain is the set of keys      *)
(* present; operator[] inserts a value-initialised (nullptr) entry when    *)
(* the key is absent.  NPNR_ASSERT failing ends the run: `fatal` becomes   *)
(* TRUE, the writes made before the failing assertion stay, and no         *)
(* operation follows.                                                      *)
(***************************************************************************)
EXTENDS Integers, FiniteSets, Sequences, TLC

\* ---------------------------------------------------------------- bounds
NumBels == 2
NumCells == 2
NumWires == 2
NumPips == 3
NumNets == 2
NumBelTypes == 2
\* a repeated init call is modelled while the index built so far is shorter
MaxIndexLen == 3

\* ------------------------------------------------------- handles, owners
\* BelId(), WireId(), PipId(): the default-constructed (null) handles
NoBel == 0
NoWire == 0
NoPip == 0
\* the null CellInfo* / NetInfo*
nullptr == 0

Bels == 1..NumBels
Wires == 1..NumWires
Pips == 1..NumPips
Cells == 1..NumCells
Nets == 1..NumNets
\* the IdString values that are bel types; operator< of IdString orders them
BelTypes == 1..NumBelTypes

STRENGTH_NONE == "STRENGTH_NONE"
PlaceStrength == {"STRENGTH_NONE", "STRENGTH_WEAK"}

\* The device graph: every pip has one fixed destination wire; pips 1 and 2
\* share a destination.
getPipDstWire(pip) == (((pip - 1) \div 2) % NumWires) + 1

VARIABLES
    base_bel2cell,      \* unordered_map<BelId, CellInfo*>
    base_wire2net,      \* unordered_map<WireId, NetInfo*>
    base_pip2net,       \* unordered_map<PipId, NetInfo*>
    cell_bel,           \* CellInfo::bel of every cell
    cell_belStrength,   \* CellInfo::belStrength of every cell
    net_wires,          \* NetInfo::wires of every net: WireId -> PipMap
    bel_type,           \* the device: getBelType of every bel
    cell_types,         \* std::vector<IdString>
    bel_buckets,        \* std::vector<BelBucketId>
    bucket_bels,        \* unordered_map<BelBucketId, std::vector<BelId>>
    cell_types_initialised,
    bel_buckets_initialised,
    before_bindPip,     \* the owners and wire-sets on entry of the last bindPip,
                        \* kept while that bindPip is the last call or the call
                        \* before an unbindPip or unbindWire
    refreshed,          \* the refreshUi* notifications fired by the last call
    call,               \* the last call made on the arch
    fatal               \* an NPNR_ASSERT has failed

vars == <<base_bel2cell, base_wire2net, base_pip2net, cell_bel, cell_belStrength,
          net_wires, bel_type, cell_types, bel_buckets, bucket_bels,
          cell_types_initialised, bel_buckets_initialised, before_bindPip,
          refreshed, call, fatal>>

belVars == <<base_bel2cell, cell_bel, cell_belStrength>>
routeVars == <<base_wire2net, base_pip2net, net_wires>>
indexVars == <<bel_type, cell_types, bel_buckets, bucket_bels,
               cell_types_initialised, bel_buckets_initialised>>

\* ------------------------------------------------------------ map helpers
\* m[k] of an unordered_map: inserts a nullptr entry when k is absent
Subscript(m, k) == IF k \in DOMAIN m THEN m ELSE (k :> nullptr) @@ m

\* m[k] = v
Assign(m, k, v) == (k :> v) @@ m

\* erase forgotten
Erase_forgotten(m, k) == m

\* m.erase(k)
Erase(m, k) == [x \in (DOMAIN m) \ {k} |-> m[x]]

\* the empty map
EmptyMap == [x \in {} |-> nullptr]

\* ---------------------------------------------------------------- queries
getBoundBelCell(bel) ==
    IF bel \notin DOMAIN base_bel2cell THEN nullptr ELSE base_bel2cell[bel]

checkBelAvail(bel) == getBoundBelCell(bel) = nullptr

getConflictingBelCell(bel) == getBoundBelCell(bel)

getBoundWireNet(wire) ==
    IF wire \notin DOMAIN base_wire2net THEN nullptr ELSE base_wire2net[wire]

checkWireAvail(wire) == getBoundWireNet(wire) = nullptr

getBoundPipNet(pip) ==
    IF pip \notin DOMAIN base_pip2net THEN nullptr ELSE base_pip2net[pip]

checkPipAvail(pip) == getBoundPipNet(pip) = nullptr

\* ------------------------------------------------------------------ calls
Call(op, id, owner, strength) ==
    [op |-> op, id |-> id, owner |-> owner, strength |-> strength]

NoCall == Call("none", 0, nullptr, STRENGTH_NONE)

\* NPNR_ASSERT failed: the run ends, nothing is notified
AssertFailed == fatal' = TRUE /\ refreshed' = {}

refreshUiBel(bel) == refreshed' = {<<"bel", bel>>}
refreshUiWire(wire) == refreshed' = {<<"wire", wire>>}

\* what every wire and pip query reports, and every net's wire-set
BindingState ==
    [wire |-> [w \in Wires |-> getBoundWireNet(w)],
     pip |-> [p \in Pips |-> getBoundPipNet(p)],
     wires |-> net_wires]

\* no bindPip to look back to
NoSnapshot == [wire |-> << >>, pip |-> << >>, wires |-> << >>]

\* the members of BaseArch, CellInfo and NetInfo after construction
Constructed ==
    /\ base_bel2cell = EmptyMap
    /\ base_wire2net = EmptyMap
    /\ base_pip2net = EmptyMap
    /\ cell_bel = [c \in Cells |-> NoBel]
    /\ cell_belStrength = [c \in Cells |-> STRENGTH_NONE]
    /\ net_wires = [n \in Nets |-> EmptyMap]
    /\ cell_types = << >>
    /\ bel_buckets = << >>
    /\ bucket_bels = EmptyMap
    /\ cell_types_initialised = FALSE
    /\ bel_buckets_initialised = FALSE
    /\ before_bindPip = NoSnapshot
    /\ refreshed = {}
    /\ call = NoCall
    /\ fatal = FALSE

\* one device: the bel types alternate
Init ==
    /\ Constructed
    /\ bel_type = [b \in Bels |-> ((b - 1) % NumBelTypes) + 1]

\* any device
InitDevice ==
    /\ Constructed
    /\ bel_type \in [Bels -> BelTypes]

\* ------------------------------------------------------------ bel methods
bindBel(bel, cell, strength) ==
    /\ ~fatal
    /\ call' = Call("bindBel", bel, cell, strength)
    /\ UNCHANGED indexVars
    /\ before_bindPip' = NoSnapshot
    /\ UNCHANGED routeVars
    /\ IF bel = NoBel
       THEN AssertFailed /\ UNCHANGED belVars
       ELSE LET m == Subscript(base_bel2cell, bel) IN
            IF m[bel] # nullptr
            THEN /\ AssertFailed
                 /\ base_bel2cell' = m
                 /\ UNCHANGED <<cell_bel, cell_belStrength>>
            ELSE /\ cell_bel' = [cell_bel EXCEPT ![cell] = bel]
                 /\ cell_belStrength' = [cell_belStrength EXCEPT ![cell] = strength]
                 /\ base_bel2cell' = Assign(m, bel, cell)
                 /\ refreshUiBel(bel)
                 /\ UNCHANGED fatal

\* unbindBel forgetting to reset the cell's strength tag
unbindBel_keepStrength(bel) ==
    /\ ~fatal
    /\ call' = Call("unbindBel", bel, nullptr, STRENGTH_NONE)
    /\ UNCHANGED indexVars
    /\ before_bindPip' = NoSnapshot
    /\ UNCHANGED routeVars
    /\ IF bel = NoBel
       THEN AssertFailed /\ UNCHANGED belVars
       ELSE LET m == Subscript(base_bel2cell, bel) IN
            IF m[bel] = nullptr
            THEN /\ AssertFailed
                 /\ base_bel2cell' = m
                 /\ UNCHANGED <<cell_bel, cell_belStrength>>
            ELSE /\ cell_bel' = [cell_bel EXCEPT ![m[bel]] = NoBel]
                 /\ base_bel2cell' = Assign(m, bel, nullptr)
                 /\ refreshUiBel(bel)
                 /\ UNCHANGED <<cell_belStrength, fatal>>

unbindBel(bel) ==
    /\ ~fatal
    /\ call' = Call("unbindBel", bel, nullptr, STRENGTH_NONE)
    /\ UNCHANGED indexVars
    /\ before_bindPip' = NoSnapshot
    /\ UNCHANGED routeVars
    /\ IF bel = NoBel
       THEN AssertFailed /\ UNCHANGED belVars
       ELSE LET m == Subscript(base_bel2cell, bel) IN
            IF m[bel] = nullptr
            THEN /\ AssertFailed
                 /\ base_bel2cell' = m
                 /\ UNCHANGED <<cell_bel, cell_belStrength>>
            ELSE /\ cell_bel' = [cell_bel EXCEPT ![m[bel]] = NoBel]
                 /\ cell_belStrength' = [cell_belStrength EXCEPT ![m[bel]] = STRENGTH_NONE]
                 /\ base_bel2cell' = Assign(m, bel, nullptr)
                 /\ refreshUiBel(bel)
                 /\ UNCHANGED fatal

\* ----------------------------------------------------------- wire methods
\* bindWire without the check that the wire is free: the owner is overwritten
bindWire_noCheck(wire, net, strength) ==
    /\ ~fatal
    /\ call' = Call("bindWire", wire, net, strength)
    /\ UNCHANGED indexVars
    /\ before_bindPip' = NoSnapshot
    /\ UNCHANGED belVars
    /\ UNCHANGED base_pip2net
    /\ IF wire = NoWire
       THEN AssertFailed /\ UNCHANGED <<base_wire2net, net_wires>>
       ELSE /\ net_wires' = [net_wires EXCEPT ![net] =
                   Assign(@, wire, [pip |-> NoPip, strength |-> strength])]
            /\ base_wire2net' = Assign(base_wire2net, wire, net)
            /\ refreshUiWire(wire)
            /\ UNCHANGED fatal

\* bindWire leaving the strength of the wire's entry value-initialised
bindWire_defaultStrength(wire, net, strength) ==
    /\ ~fatal
    /\ call' = Call("bindWire", wire, net, strength)
    /\ UNCHANGED indexVars
    /\ before_bindPip' = NoSnapshot
    /\ UNCHANGED belVars
    /\ UNCHANGED base_pip2net
    /\ IF wire = NoWire
       THEN AssertFailed /\ UNCHANGED <<base_wire2net, net_wires>>
       ELSE LET m == Subscript(base_wire2net, wire) IN
            IF m[wire] # nullptr
            THEN /\ AssertFailed
                 /\ base_wire2net' = m
                 /\ UNCHANGED net_wires
            ELSE /\ net_wires' = [net_wires EXCEPT ![net] =
                        Assign(@, wire, [pip |-> NoPip, strength |-> STRENGTH_NONE])]
                 /\ base_wire2net' = Assign(m, wire, net)
                 /\ refreshUiWire(wire)
                 /\ UNCHANGED fatal

bindWire(wire, net, strength) ==
    /\ ~fatal
    /\ call' = Call("bindWire", wire, net, strength)
    /\ UNCHANGED indexVars
    /\ before_bindPip' = NoSnapshot
    /\ UNCHANGED belVars
    /\ UNCHANGED base_pip2net
    /\ IF wire = NoWire
       THEN AssertFailed /\ UNCHANGED <<base_wire2net, net_wires>>
       ELSE LET m == Subscript(base_wire2net, wire) IN
            IF m[wire] # nullptr
            THEN /\ AssertFailed
                 /\ base_wire2net' = m
                 /\ UNCHANGED net_wires
            ELSE /\ net_wires' = [net_wires EXCEPT ![net] =
                        Assign(@, wire, [pip |-> NoPip, strength |-> strength])]
                 /\ base_wire2net' = Assign(m, wire, net)
                 /\ refreshUiWire(wire)
                 /\ UNCHANGED fatal

\* unbindWire leaving the driving pip bound
unbindWire_noCascade(wire) ==
    /\ ~fatal
    /\ call' = Call("unbindWire", wire, nullptr, STRENGTH_NONE)
    /\ UNCHANGED indexVars
    /\ before_bindPip' = IF call.op = "bindPip" THEN before_bindPip ELSE NoSnapshot
    /\ UNCHANGED belVars
    /\ IF wire = NoWire
       THEN AssertFailed /\ UNCHANGED routeVars
       ELSE LET m == Subscript(base_wire2net, wire) IN
            IF m[wire] = nullptr
            THEN /\ AssertFailed
                 /\ base_wire2net' = m
                 /\ UNCHANGED <<base_pip2net, net_wires>>
            ELSE LET net == m[wire] IN
                 IF wire \notin DOMAIN net_wires[net]
                 THEN /\ AssertFailed
                      /\ base_wire2net' = m
                      /\ UNCHANGED <<base_pip2net, net_wires>>
                 ELSE LET pip == net_wires[net][wire].pip IN
                      /\ base_pip2net' = base_pip2net
                      /\ net_wires' = [net_wires EXCEPT ![net] = Erase(@, wire)]
                      /\ base_wire2net' = Assign(m, wire, nullptr)
                      /\ refreshUiWire(wire)
                      /\ UNCHANGED fatal

unbindWire(wire) ==
    /\ ~fatal
    /\ call' = Call("unbindWire", wire, nullptr, STRENGTH_NONE)
    /\ UNCHANGED indexVars
    /\ before_bindPip' = IF call.op = "bindPip" THEN before_bindPip ELSE NoSnapshot
    /\ UNCHANGED belVars
    /\ IF wire = NoWire
       THEN AssertFailed /\ UNCHANGED routeVars
       ELSE LET m == Subscript(base_wire2net, wire) IN
            IF m[wire] = nullptr
            THEN /\ AssertFailed
                 /\ base_wire2net' = m
                 /\ UNCHANGED <<base_pip2net, net_wires>>
            ELSE LET net == m[wire] IN
                 IF wire \notin DOMAIN net_wires[net]
                 THEN /\ AssertFailed
                      /\ base_wire2net' = m
                      /\ UNCHANGED <<base_pip2net, net_wires>>
                 ELSE LET pip == net_wires[net][wire].pip IN
                      /\ base_pip2net' = IF pip # NoPip
                                         THEN Assign(base_pip2net, pip, nullptr)
                                         ELSE base_pip2net
                      /\ net_wires' = [net_wires EXCEPT ![net] = Erase(@, wire)]
                      /\ base_wire2net' = Assign(m, wire, nullptr)
                      /\ refreshUiWire(wire)
                      /\ UNCHANGED fatal

\* ------------------------------------------------------------ pip methods
\* bindPip without the check that the destination wire is free: the wire's
\* owner and entry are overwritten
bindPip_noWireCheck(pip, net, strength) ==
    /\ ~fatal
    /\ call' = Call("bindPip", pip, net, strength)
    /\ UNCHANGED indexVars
    /\ before_bindPip' = BindingState
    /\ UNCHANGED belVars
    /\ IF pip = NoPip
       THEN AssertFailed /\ UNCHANGED routeVars
       ELSE LET p == Subscript(base_pip2net, pip) IN
            IF p[pip] # nullptr
            THEN /\ AssertFailed
                 /\ base_pip2net' = p
                 /\ UNCHANGED <<base_wire2net, net_wires>>
            ELSE LET dst == getPipDstWire(pip)
                     w == Subscript(base_wire2net, dst) IN
                 /\ base_pip2net' = Assign(p, pip, net)
                 /\ base_wire2net' = Assign(w, dst, net)
                 /\ net_wires' = [net_wires EXCEPT ![net] =
                        Assign(@, dst, [pip |-> pip, strength |-> strength])]
                 /\ refreshed' = {}
                 /\ UNCHANGED fatal

\* bindPip not recording the pip as the driver of its destination wire
bindPip_noDriver(pip, net, strength) ==
    /\ ~fatal
    /\ call' = Call("bindPip", pip, net, strength)
    /\ UNCHANGED indexVars
    /\ before_bindPip' = BindingState
    /\ UNCHANGED belVars
    /\ IF pip = NoPip
       THEN AssertFailed /\ UNCHANGED routeVars
       ELSE LET p == Subscript(base_pip2net, pip) IN
            IF p[pip] # nullptr
            THEN /\ AssertFailed
                 /\ base_pip2net' = p
                 /\ UNCHANGED <<base_wire2net, net_wires>>
            ELSE LET dst == getPipDstWire(pip)
                     w == Subscript(base_wire2net, dst) IN
                 /\ base_pip2net' = Assign(p, pip, net)
                 /\ IF w[dst] # nullptr
                    THEN /\ AssertFailed
                         /\ base_wire2net' = w
                         /\ UNCHANGED net_wires
                    ELSE /\ base_wire2net' = Assign(w, dst, net)
                         /\ net_wires' = [net_wires EXCEPT ![net] =
                                Assign(@, dst, [pip |-> NoPip, strength |-> strength])]
                         /\ refreshed' = {}
                         /\ UNCHANGED fatal

bindPip(pip, net, strength) ==
    /\ ~fatal
    /\ call' = Call("bindPip", pip, net, strength)
    /\ UNCHANGED indexVars
    /\ before_bindPip' = BindingState
    /\ UNCHANGED belVars
    /\ IF pip = NoPip
       THEN AssertFailed /\ UNCHANGED routeVars
       ELSE LET p == Subscript(base_pip2net, pip) IN
            IF p[pip] # nullptr
            THEN /\ AssertFailed
                 /\ base_pip2net' = p
                 /\ UNCHANGED <<base_wire2net, net_wires>>
            ELSE LET dst == getPipDstWire(pip)
                     w == Subscript(base_wire2net, dst) IN
                 /\ base_pip2net' = Assign(p, pip, net)
                 /\ IF w[dst] # nullptr
                    THEN /\ AssertFailed
                         /\ base_wire2net' = w
                         /\ UNCHANGED net_wires
                    ELSE /\ base_wire2net' = Assign(w, dst, net)
                         /\ net_wires' = [net_wires EXCEPT ![net] =
                                Assign(@, dst, [pip |-> pip, strength |-> strength])]
                         /\ refreshed' = {}
                         /\ UNCHANGED fatal

\* unbindPip clearing only the driver field of the wire's entry
unbindPip_clearsDriverOnly(pip) ==
    /\ ~fatal
    /\ call' = Call("unbindPip", pip, nullptr, STRENGTH_NONE)
    /\ UNCHANGED indexVars
    /\ before_bindPip' = IF call.op = "bindPip" THEN before_bindPip ELSE NoSnapshot
    /\ UNCHANGED belVars
    /\ IF pip = NoPip
       THEN AssertFailed /\ UNCHANGED routeVars
       ELSE LET p == Subscript(base_pip2net, pip) IN
            IF p[pip] = nullptr
            THEN /\ AssertFailed
                 /\ base_pip2net' = p
                 /\ UNCHANGED <<base_wire2net, net_wires>>
            ELSE LET dst == getPipDstWire(pip)
                     w == Subscript(base_wire2net, dst) IN
                 IF w[dst] = nullptr
                 THEN /\ AssertFailed
                      /\ base_pip2net' = p
                      /\ base_wire2net' = w
                      /\ UNCHANGED net_wires
                 ELSE /\ base_wire2net' = Assign(w, dst, nullptr)
                      /\ net_wires' = [net_wires EXCEPT ![p[pip]] =
                             IF dst \in DOMAIN @
                             THEN Assign(@, dst, [pip |-> NoPip, strength |-> @[dst].strength])
                             ELSE @]
                      /\ base_pip2net' = Assign(p, pip, nullptr)
                      /\ refreshed' = {}
                      /\ UNCHANGED fatal

\* unbindPip clearing the whole wire-set of the net
unbindPip_clearsNetWires(pip) ==
    /\ ~fatal
    /\ call' = Call("unbindPip", pip, nullptr, STRENGTH_NONE)
    /\ UNCHANGED indexVars
    /\ before_bindPip' = IF call.op = "bindPip" THEN before_bindPip ELSE NoSnapshot
    /\ UNCHANGED belVars
    /\ IF pip = NoPip
       THEN AssertFailed /\ UNCHANGED routeVars
       ELSE LET p == Subscript(base_pip2net, pip) IN
            IF p[pip] = nullptr
            THEN /\ AssertFailed
                 /\ base_pip2net' = p
                 /\ UNCHANGED <<base_wire2net, net_wires>>
            ELSE LET dst == getPipDstWire(pip)
                     w == Subscript(base_wire2net, dst) IN
                 IF w[dst] = nullptr
                 THEN /\ AssertFailed
                      /\ base_pip2net' = p
                      /\ base_wire2net' = w
                      /\ UNCHANGED net_wires
                 ELSE /\ base_wire2net' = Assign(w, dst, nullptr)
                      /\ net_wires' = [net_wires EXCEPT ![p[pip]] = EmptyMap]
                      /\ base_pip2net' = Assign(p, pip, nullptr)
                      /\ refreshed' = {}
                      /\ UNCHANGED fatal

unbindPip(pip) ==
    /\ ~fatal
    /\ call' = Call("unbindPip", pip, nullptr, STRENGTH_NONE)
    /\ UNCHANGED indexVars
    /\ before_bindPip' = IF call.op = "bindPip" THEN before_bindPip ELSE NoSnapshot
    /\ UNCHANGED belVars
    /\ IF pip = NoPip
       THEN AssertFailed /\ UNCHANGED routeVars
       ELSE LET p == Subscript(base_pip2net, pip) IN
            IF p[pip] = nullptr
            THEN /\ AssertFailed
                 /\ base_pip2net' = p
                 /\ UNCHANGED <<base_wire2net, net_wires>>
            ELSE LET dst == getPipDstWire(pip)
                     w == Subscript(base_wire2net, dst) IN
                 IF w[dst] = nullptr
                 THEN /\ AssertFailed
                      /\ base_pip2net' = p
                      /\ base_wire2net' = w
                      /\ UNCHANGED net_wires
                 ELSE /\ base_wire2net' = Assign(w, dst, nullptr)
                      /\ net_wires' = [net_wires EXCEPT ![p[pip]] = Erase(@, dst)]
                      /\ base_pip2net' = Assign(p, pip, nullptr)
                      /\ refreshed' = {}
                      /\ UNCHANGED fatal

\* --------------------------------------------- placement validity checks
\* the device: getBels() enumerates every bel once, getBelType gives its type
getBels == [i \in 1..NumBels |-> i]

getBelType(bel) == bel_type[bel]

isValidBelForCellType(cell_type, bel) == cell_type = getBelType(bel)

\* bbid_to_name / bbid_from_name with BelBucketId typedef'd to IdString
getBelBucketName(bucket) == bucket

getBelBucketByName(name) == name

getBelBucketForCellType(cell_type) == getBelBucketByName(cell_type)

\* the bucket taken from the type of the first bel of the device
getBelBucketForBel_firstBel(bel) == getBelBucketForCellType(getBelType(getBels[1]))

getBelBucketForBel(bel) == getBelBucketForCellType(getBelType(bel))

\* the elements of a vector
Elems(v) == {v[i] : i \in 1..Len(v)}

\* the orders in which an unordered container may be iterated
Orders(S) == {o \in [1..Cardinality(S) -> S] : \A x \in S : \E i \in 1..Cardinality(S) : o[i] = x}

\* x put into the ascending vector v
InsertSorted(x, v) ==
    LET k == Cardinality({i \in 1..Len(v) : v[i] <= x})
    IN SubSeq(v, 1, k) \o <<x>> \o SubSeq(v, k + 1, Len(v))

\* std::sort forgotten
Sort_forgotten(v) == v

\* std::sort(v.begin(), v.end())
RECURSIVE Sort(_)
Sort(v) == IF v = << >> THEN << >> ELSE InsertSorted(Head(v), Sort(Tail(v)))

\* bucket_bels[bucket]: inserts an empty vector when the bucket is absent
SubscriptVec(m, k) == IF k \in DOMAIN m THEN m ELSE (k :> << >>) @@ m

\* for (auto cell_type : getCellTypes()) bucket_bels[bucket];
CreateBuckets(m) ==
    LET created == {getBelBucketForCellType(cell_types[i]) : i \in 1..Len(cell_types)}
    IN [k \in DOMAIN m \cup created |-> IF k \in DOMAIN m THEN m[k] ELSE << >>]

\* the bucket's vector overwritten by the bel instead of push_back
RECURSIVE PushBels_overwrites(_, _)
PushBels_overwrites(m, i) ==
    IF i > Len(getBels) THEN m
    ELSE LET bucket == getBelBucketForBel(getBels[i])
             m1 == SubscriptVec(m, bucket)
         IN PushBels_overwrites([m1 EXCEPT ![bucket] = <<getBels[i]>>], i + 1)

\* for (auto bel : getBels()) bucket_bels[bucket].push_back(bel);  bels i..
RECURSIVE PushBels(_, _)
PushBels(m, i) ==
    IF i > Len(getBels) THEN m
    ELSE LET bucket == getBelBucketForBel(getBels[i])
             m1 == SubscriptVec(m, bucket)
         IN PushBels([m1 EXCEPT ![bucket] = Append(@, getBels[i])], i + 1)

\* an index method was called: no binding is touched, nothing is notified
IndexCall(op, id) ==
    /\ ~fatal
    /\ call' = Call(op, id, nullptr, STRENGTH_NONE)
    /\ before_bindPip' = NoSnapshot
    /\ UNCHANGED <<belVars, routeVars, bel_type>>

init_cell_types ==
    /\ Len(cell_types) < MaxIndexLen
    /\ IndexCall("init_cell_types", 0)
    /\ LET bel_types == {getBelType(getBels[i]) : i \in 1..Len(getBels)} IN
       \E order \in Orders(bel_types) : cell_types' = Sort(cell_types \o order)
    /\ cell_types_initialised' = TRUE
    /\ refreshed' = {}
    /\ UNCHANGED <<bel_buckets, bucket_bels, bel_buckets_initialised, fatal>>

\* init_bel_buckets reading cell_types directly, without getCellTypes()
init_bel_buckets_noAssert ==
    /\ Len(bel_buckets) < MaxIndexLen
    /\ IndexCall("init_bel_buckets", 0)
    /\ UNCHANGED <<cell_types, cell_types_initialised>>
    /\ LET filled == PushBels(CreateBuckets(bucket_bels), 1) IN
            /\ bucket_bels' = filled
            /\ \E order \in Orders(DOMAIN filled) :
                    bel_buckets' = Sort(bel_buckets \o order)
            /\ bel_buckets_initialised' = TRUE
            /\ refreshed' = {}
            /\ UNCHANGED fatal

init_bel_buckets ==
    /\ Len(bel_buckets) < MaxIndexLen
    /\ IndexCall("init_bel_buckets", 0)
    /\ UNCHANGED <<cell_types, cell_types_initialised>>
    /\ IF ~cell_types_initialised
       THEN /\ AssertFailed
            /\ UNCHANGED <<bel_buckets, bucket_bels, bel_buckets_initialised>>
       ELSE LET filled == PushBels(CreateBuckets(bucket_bels), 1) IN
            /\ bucket_bels' = filled
            /\ \E order \in Orders(DOMAIN filled) :
                    bel_buckets' = Sort(bel_buckets \o order)
            /\ bel_buckets_initialised' = TRUE
            /\ refreshed' = {}
            /\ UNCHANGED fatal

getCellTypes ==
    /\ IndexCall("getCellTypes", 0)
    /\ UNCHANGED <<cell_types, bel_buckets, bucket_bels,
                   cell_types_initialised, bel_buckets_initialised>>
    /\ IF ~cell_types_initialised
       THEN AssertFailed
       ELSE refreshed' = {} /\ UNCHANGED fatal

getBelBuckets ==
    /\ IndexCall("getBelBuckets", 0)
    /\ UNCHANGED <<cell_types, bel_buckets, bucket_bels,
                   cell_types_initialised, bel_buckets_initialised>>
    /\ IF ~bel_buckets_initialised
       THEN AssertFailed
       ELSE refreshed' = {} /\ UNCHANGED fatal

\* bucket_bels.at(bucket) throws std::out_of_range for a bucket that does
\* not exist: the run ends then as it does on a failed NPNR_ASSERT
getBelsInBucket(bucket) ==
    /\ IndexCall("getBelsInBucket", bucket)
    /\ UNCHANGED <<cell_types, bel_buckets, bucket_bels,
                   cell_types_initialised, bel_buckets_initialised>>
    /\ IF ~bel_buckets_initialised \/ bucket \notin DOMAIN bucket_bels
       THEN AssertFailed
       ELSE refreshed' = {} /\ UNCHANGED fatal

\* ---------------------------------------------------- queries, as calls
\* a const query method was called: find() inserts nothing, the value
\* returned is that of the operator of the same name
Query(op, id) ==
    /\ ~fatal
    /\ call' = Call(op, id, nullptr, STRENGTH_NONE)
    /\ before_bindPip' = NoSnapshot
    /\ refreshed' = {}
    /\ UNCHANGED <<belVars, routeVars, indexVars, fatal>>

QueryOps == {"checkBelAvail", "getBoundBelCell", "checkWireAvail", "getBoundWireNet",
             "checkPipAvail", "getBoundPipNet"}

\* ------------------------------------------------------------------ system
NextBel ==
    \/ \E bel \in Bels \cup {NoBel}, cell \in Cells, strength \in PlaceStrength :
            bindBel(bel, cell, strength)
    \/ \E bel \in Bels \cup {NoBel} : unbindBel(bel)

NextRoute ==
    \/ \E wire \in Wires \cup {NoWire}, net \in Nets, strength \in PlaceStrength :
            bindWire(wire, net, strength)
    \/ \E wire \in Wires \cup {NoWire} : unbindWire(wire)
    \/ \E pip \in Pips \cup {NoPip}, net \in Nets, strength \in PlaceStrength :
            bindPip(pip, net, strength)
    \/ \E pip \in Pips \cup {NoPip} : unbindPip(pip)

NextQuery ==
    \/ \E bel \in Bels \cup {NoBel} : Query("checkBelAvail", bel)
    \/ \E bel \in Bels \cup {NoBel} : Query("getBoundBelCell", bel)
    \/ \E wire \in Wires \cup {NoWire} : Query("checkWireAvail", wire)
    \/ \E wire \in Wires \cup {NoWire} : Query("getBoundWireNet", wire)
    \/ \E pip \in Pips \cup {NoPip} : Query("checkPipAvail", pip)
    \/ \E pip \in Pips \cup {NoPip} : Query("getBoundPipNet", pip)

Next == NextBel \/ NextRoute \/ NextQuery

\* the placer and the router together
Spec == Init /\ [][Next]_vars

\* the placer alone: only the bel methods are called
SpecBel == Init /\ [][NextBel]_vars

\* the router alone: only the wire and pip methods are called
SpecRoute == Init /\ [][NextRoute]_vars

NextIndex ==
    \/ init_cell_types
    \/ init_bel_buckets
    \/ getCellTypes
    \/ getBelBuckets
    \/ \E bucket \in BelTypes : getBelsInBucket(bucket)

\* the constructor of an arch, on any device: only the index methods are called
SpecIndex == InitDevice /\ [][NextIndex]_vars

TypeOK ==
    /\ DOMAIN base_bel2cell \subseteq Bels
    /\ \A b \in DOMAIN base_bel2cell : base_bel2cell[b] \in Cells \cup {nullptr}
    /\ DOMAIN base_wire2net \subseteq Wires
    /\ DOMAIN base_pip2net \subseteq Pips
    /\ cell_bel \in [Cells -> Bels \cup {NoBel}]
    /\ cell_belStrength \in [Cells -> PlaceStrength]
    /\ \A n \in Nets : DOMAIN net_wires[n] \subseteq Wires
    /\ fatal \in BOOLEAN
\* ======================================================== site <-> cell
\* C1: in every state reached without a fatal check, the site-cell binding
\* is a partial bijection with agreeing back-references: every cell owns at
\* most one site, and getBoundBelCell(s) = c exactly when c's bel field is s.
C1_SiteCellBijection ==
    ~fatal =>
        /\ \A c \in Cells : Cardinality({b \in Bels : getBoundBelCell(b) = c}) <= 1
        /\ \A b \in Bels, c \in Cells : (getBoundBelCell(b) = c) <=> (cell_bel[c] = b)

\* C2: right after a successful bindBel(s,c,st) the site is unavailable, its
\* owner is c, c's bel is s and c's strength is st; right after a successful
\* unbindBel(s) the site is available, has no owner, and the former owner's
\* bel is BelId() with strength STRENGTH_NONE.
C2_BindUnbindBelPost ==
    [][\A b \in Bels :
        (call'.id = b /\ ~fatal') =>
            /\ call'.op = "bindBel" =>
                 /\ ~checkBelAvail(b)'
                 /\ getBoundBelCell(b)' = call'.owner
                 /\ cell_bel'[call'.owner] = b
                 /\ cell_belStrength'[call'.owner] = call'.strength
            /\ call'.op = "unbindBel" =>
                 /\ checkBelAvail(b)'
                 /\ getBoundBelCell(b)' = nullptr
                 /\ cell_bel'[getBoundBelCell(b)] = NoBel
                 /\ cell_belStrength'[getBoundBelCell(b)] = STRENGTH_NONE
      ]_vars

\* a site bound with a strength other than "none" has been released again
C2_Witness ==
    /\ ~fatal
    /\ call.op = "unbindBel"
    /\ \E b \in Bels : getBoundBelCell(b) # nullptr
    /\ \E c \in Cells : cell_bel[c] = NoBel /\ cell_belStrength[c] = STRENGTH_NONE

\* C3: for sites, wires and pips alike, a bind of a resource that has an
\* owner, an unbind of a resource that has none (never bound included) and
\* any bind or unbind of the null handle end in the fatal outcome.
C3_ContractViolationsFatal ==
    [][ ( \/ call'.op = "bindBel" /\ (call'.id = NoBel \/ getBoundBelCell(call'.id) # nullptr)
          \/ call'.op = "unbindBel" /\ (call'.id = NoBel \/ getBoundBelCell(call'.id) = nullptr)
          \/ call'.op = "bindWire" /\ (call'.id = NoWire \/ getBoundWireNet(call'.id) # nullptr)
          \/ call'.op = "unbindWire" /\ (call'.id = NoWire \/ getBoundWireNet(call'.id) = nullptr)
          \/ call'.op = "bindPip" /\ (call'.id = NoPip \/ getBoundPipNet(call'.id) # nullptr)
          \/ call'.op = "unbindPip" /\ (call'.id = NoPip \/ getBoundPipNet(call'.id) = nullptr) )
        => (fatal' /\ refreshed' = {})
      ]_vars

\* a wire that was bound and released is released a second time, while a
\* site and a pip are owned
C3_Witness ==
    /\ fatal
    /\ call.op = "unbindWire"
    /\ call.id \in DOMAIN base_wire2net
    /\ \E b \in Bels : getBoundBelCell(b) # nullptr
    /\ \E p \in Pips : getBoundPipNet(p) # nullptr
\* ================================================= wire / pip <-> net
\* the entry of wire w in net n's wire-set, when there is one
HasEntry(n, w) == w \in DOMAIN net_wires[n]

\* C4: right after a successful bindPip(p,n,st), with w the destination of p,
\* the pip and the wire are owned by n and n's entry for w records p as the
\* driver with strength st; right after a successful unbindPip(p) neither
\* has an owner and w has no entry at all in n's wire-set.
C4_BindUnbindPipPost ==
    [][\A p \in Pips, n \in Nets :
        LET w == getPipDstWire(p) IN
        /\ (call'.op = "bindPip" /\ call'.id = p /\ call'.owner = n /\ ~fatal') =>
                 /\ getBoundPipNet(p)' = n
                 /\ getBoundWireNet(w)' = n
                 /\ HasEntry(n, w)'
                 /\ net_wires'[n][w] = [pip |-> p, strength |-> call'.strength]
        /\ (call'.op = "unbindPip" /\ call'.id = p /\ getBoundPipNet(p) = n /\ ~fatal') =>
                 /\ getBoundPipNet(p)' = nullptr
                 /\ getBoundWireNet(w)' = nullptr
                 /\ ~HasEntry(n, w)'
      ]_vars

\* a pip bound with a strength other than "none" has been released while
\* the other wire stays bound
C4_Witness ==
    /\ ~fatal
    /\ call.op = "unbindPip"
    /\ getBoundPipNet(call.id) = nullptr
    /\ \A n \in Nets : ~HasEntry(n, getPipDstWire(call.id))
    /\ \E w \in Wires : getBoundWireNet(w) # nullptr

\* C5: cascading release: when wire w is bound to net n with pip p recorded
\* as its driver, a successful unbindWire(w) leaves p without owner, w
\* without owner and n's wire-set without an entry for w.
C5_CascadingRelease ==
    [][\A w \in Wires, n \in Nets, p \in Pips :
        ( /\ call'.op = "unbindWire" /\ call'.id = w /\ ~fatal'
          /\ getBoundWireNet(w) = n
          /\ HasEntry(n, w) /\ net_wires[n][w].pip = p )
        => /\ getBoundPipNet(p)' = nullptr
           /\ getBoundWireNet(w)' = nullptr
           /\ ~HasEntry(n, w)'
      ]_vars

\* a wire has been released by unbindWire and the one pip ever touched,
\* which drives that wire, has lost its owner with it
C5_Witness ==
    /\ ~fatal
    /\ call.op = "unbindWire"
    /\ \E p \in Pips :
          /\ DOMAIN base_pip2net = {p}
          /\ base_pip2net[p] = nullptr
          /\ getPipDstWire(p) = call.id
    /\ getBoundWireNet(call.id) = nullptr

\* C6 as stated: after bindWire(W1,N), a bindPip(P,N) with destination W1
\* and P unbound completes without a fatal check and leaves N's entry for W1
\* with P as driver.
C6_BindPipAugmentsBoundWire ==
    [][\A p \in Pips, n \in Nets :
        LET w == getPipDstWire(p) IN
        ( /\ call.op = "bindWire" /\ call.id = w /\ call.owner = n /\ ~fatal
          /\ getBoundPipNet(p) = nullptr
          /\ call'.op = "bindPip" /\ call'.id = p /\ call'.owner = n )
        => /\ ~fatal'
           /\ HasEntry(n, w)'
           /\ net_wires'[n][w].pip = p
      ]_vars

\* C6 amended: bindPip(P,N) on an unbound pip P with destination W1 is fatal
\* when W1 was bound to N by bindWire, and N's entry for W1 then stays
\* without driver; when W1 is unbound it completes and leaves N's entry for
\* W1 with P as driver; a following successful unbindPip(P) leaves N's
\* wire-set without any entry for W1.
C6_BindPipNeedsFreeWire ==
    [][\A p \in Pips, n \in Nets :
        LET w == getPipDstWire(p) IN
        /\ ( /\ call'.op = "bindPip" /\ call'.id = p /\ call'.owner = n
             /\ getBoundPipNet(p) = nullptr )
           => /\ ( /\ getBoundWireNet(w) = n
                   /\ HasEntry(n, w) /\ net_wires[n][w].pip = NoPip )
                 => ( /\ fatal'
                      /\ HasEntry(n, w)'
                      /\ net_wires'[n][w].pip = NoPip )
              /\ getBoundWireNet(w) = nullptr
                 => ( /\ ~fatal'
                      /\ HasEntry(n, w)'
                      /\ net_wires'[n][w].pip = p )
        /\ ( /\ call'.op = "unbindPip" /\ call'.id = p /\ ~fatal'
             /\ getBoundPipNet(p) = n )
           => ~HasEntry(n, w)'
      ]_vars

\* bindPip(P,N) has just failed on its destination wire, which bindWire had
\* bound to N without driver: P passed its own check and W1 keeps its entry
C6_Witness ==
    /\ fatal
    /\ call.op = "bindPip"
    /\ call.id \in Pips
    /\ getBoundPipNet(call.id) = call.owner
    /\ getBoundWireNet(getPipDstWire(call.id)) = call.owner
    /\ HasEntry(call.owner, getPipDstWire(call.id))
    /\ net_wires[call.owner][getPipDstWire(call.id)].pip = NoPip

\* C7: bindPip(p,n,st) is fatal whenever the destination wire of p has an
\* owner (n or another net, bound by bindWire or through another pip) and
\* whenever p itself has an owner.
C7_BindPipFatalOnOwnedWireOrPip ==
    [][\A p \in Pips :
        ( /\ call'.op = "bindPip" /\ call'.id = p
          /\ \/ getBoundWireNet(getPipDstWire(p)) # nullptr
             \/ getBoundPipNet(p) # nullptr )
        => fatal'
      ]_vars

\* bindPip has failed on a pip whose destination wire is owned by the same
\* net through another pip
C7_Witness ==
    /\ fatal
    /\ call.op = "bindPip"
    /\ call.id \in Pips
    /\ \E q \in Pips \ {call.id} :
          /\ getPipDstWire(q) = getPipDstWire(call.id)
          /\ getBoundPipNet(q) = call.owner
          /\ HasEntry(call.owner, getPipDstWire(q))
          /\ net_wires[call.owner][getPipDstWire(q)].pip = q

\* ============================================================== observer
\* the resource kind a call is about
KindOf(op) ==
    CASE op \in {"bindBel", "unbindBel"} -> "bel"
      [] op \in {"bindWire", "unbindWire"} -> "wire"
      [] op \in {"bindPip", "unbindPip"} -> "pip"
      [] OTHER -> "none"

\* C8: every bind or unbind of a site, wire or pip that completes without a
\* fatal check has fired an observer notification for the resource it was
\* called on.
C8_ObserverNotified ==
    (~fatal /\ KindOf(call.op) # "none") => <<KindOf(call.op), call.id>> \in refreshed

\* ============================================================ invariants
\* C9: without a fatal check, getBoundWireNet(w) = n exactly when w has an
\* entry in n's wire-set.
C9_WireOwnerAgreesWithWireSet ==
    ~fatal => \A w \in Wires, n \in Nets : (getBoundWireNet(w) = n) <=> HasEntry(n, w)

\* a pip has just been released while another wire is bound directly
C9_Witness ==
    /\ ~fatal
    /\ call.op = "unbindPip"
    /\ \E w \in Wires, n \in Nets :
          /\ getBoundWireNet(w) = n
          /\ HasEntry(n, w) /\ net_wires[n][w].pip = NoPip

\* C10: without a fatal check, the destination wire of every bound pip is
\* owned by the pip's net.
C10_BoundPipOwnsDstWire ==
    ~fatal => \A p \in Pips :
        getBoundPipNet(p) # nullptr => getBoundWireNet(getPipDstWire(p)) = getBoundPipNet(p)

\* two pips sharing a destination wire were bound in turn, and the wire has
\* just been released through unbindWire: neither pip has an owner
C10_Witness ==
    /\ ~fatal
    /\ call.op = "unbindWire"
    /\ \E p, q \in Pips :
          /\ p # q
          /\ getPipDstWire(p) = call.id
          /\ getPipDstWire(q) = call.id
          /\ {p, q} \subseteq DOMAIN base_pip2net
          /\ getBoundPipNet(p) = nullptr
          /\ getBoundPipNet(q) = nullptr
\* ====================================================== bucket classifier
StrictlyAscending(v) == \A i \in 1..(Len(v) - 1) : v[i] < v[i + 1]

\* how often x occurs in the vector v
Count(x, v) == Cardinality({i \in 1..Len(v) : v[i] = x})

BucketsPartitionBels ==
    /\ \A b \in Bels :
          /\ getBelBucketForBel(b) \in DOMAIN bucket_bels
          /\ \A k \in DOMAIN bucket_bels :
                Count(b, bucket_bels[k]) = IF k = getBelBucketForBel(b) THEN 1 ELSE 0
    /\ \A k \in DOMAIN bucket_bels : Elems(bucket_bels[k]) \subseteq Bels
    /\ StrictlyAscending(bel_buckets)
    /\ Elems(bel_buckets) = DOMAIN bucket_bels

\* C11: after init_cell_types() followed by the first init_bel_buckets(),
\* every bel is in exactly one bucket's list, once, that bucket being
\* getBelBucketForBel of the bel; no list holds anything but bels of the
\* device; and bel_buckets lists every bucket once, ascending.
C11_BucketsPartition ==
    [][ (~bel_buckets_initialised /\ call'.op = "init_bel_buckets" /\ ~fatal')
        => BucketsPartitionBels'
      ]_vars

\* the buckets were just built for a device whose two first bels have
\* different types, the greater type first
C11_Witness ==
    /\ ~fatal
    /\ call.op = "init_bel_buckets"
    /\ bel_type[1] > bel_type[2]
    /\ bel_buckets = <<bel_type[2], bel_type[1]>>
    /\ bucket_bels[bel_type[1]] = <<1>>
    /\ bucket_bels[bel_type[2]] = <<2>>

\* C12: after the first init_cell_types(), cell_types is strictly ascending
\* and its elements are exactly the types of the device's bels.
C12_CellTypesSortedUnique ==
    [][ (~cell_types_initialised /\ call'.op = "init_cell_types")
        => /\ StrictlyAscending(cell_types')
           /\ Elems(cell_types') = {getBelType(b) : b \in Bels}
           /\ cell_types_initialised'
      ]_vars

\* the cell types were just built for a device that lists a bel of the
\* greater type first
C12_Witness ==
    /\ ~fatal
    /\ call.op = "init_cell_types"
    /\ bel_type[1] > bel_type[2]
    /\ cell_types = <<bel_type[2], bel_type[1]>>

\* C13: getCellTypes() is fatal while init_cell_types() has not completed;
\* getBelBuckets() and getBelsInBucket() are fatal while init_bel_buckets()
\* has not completed; init_bel_buckets() before init_cell_types() is fatal
\* and leaves the bucket index as it was, uninitialised.
C13_AccessorsFatalBeforeInit ==
    [][ /\ (call'.op = "getCellTypes" /\ ~cell_types_initialised) => fatal'
        /\ (call'.op \in {"getBelBuckets", "getBelsInBucket"} /\ ~bel_buckets_initialised)
              => fatal'
        /\ (call'.op = "init_bel_buckets" /\ ~cell_types_initialised)
              => /\ fatal'
                 /\ ~bel_buckets_initialised'
                 /\ UNCHANGED <<bel_buckets, bucket_bels>>
      ]_vars

\* init_bel_buckets() was called first and failed
C13_Witness ==
    /\ fatal
    /\ call.op = "init_bel_buckets"
    /\ ~cell_types_initialised
    /\ ~bel_buckets_initialised
    /\ bel_buckets = << >>

\* the bels returned by getBelsInBucket(bucket)
BelsInBucket(bucket) ==
    IF bucket \in DOMAIN bucket_bels THEN Elems(bucket_bels[bucket]) ELSE {}

\* C14: with the default policies and both indices built, for every cell
\* type T of cell_types and every bel s: isValidBelForCellType(T,s) iff T is
\* the type of s iff s is in getBelsInBucket(getBelBucketForCellType(T)).
C14_BucketIsValidBels ==
    (cell_types_initialised /\ bel_buckets_initialised) =>
        \A T \in Elems(cell_types), s \in Bels :
            /\ isValidBelForCellType(T, s) <=> (T = getBelType(s))
            /\ (T = getBelType(s)) <=> (s \in BelsInBucket(getBelBucketForCellType(T)))

\* a bucket of a device with two types was read: the bel of the other type
\* is neither valid for the type nor in its bucket
C14_Witness ==
    /\ ~fatal
    /\ call.op = "getBelsInBucket"
    /\ cell_types_initialised /\ bel_buckets_initialised
    /\ \E s \in Bels :
          /\ getBelType(s) # call.id
          /\ ~isValidBelForCellType(call.id, s)
          /\ s \notin BelsInBucket(call.id)
          /\ BelsInBucket(call.id) # {}
\* ======================================================= wires, continued
\* C15: right after a successful bindWire(w,n,st), w is owned by n and n's
\* entry for w has no driver and strength st; right after a successful
\* unbindWire(w), w is available and n's wire-set has no entry for w.
C15_BindUnbindWirePost ==
    [][\A w \in Wires, n \in Nets :
        /\ (call'.op = "bindWire" /\ call'.id = w /\ call'.owner = n /\ ~fatal') =>
                 /\ getBoundWireNet(w)' = n
                 /\ HasEntry(n, w)'
                 /\ net_wires'[n][w] = [pip |-> NoPip, strength |-> call'.strength]
        /\ (call'.op = "unbindWire" /\ call'.id = w /\ getBoundWireNet(w) = n /\ ~fatal') =>
                 /\ checkWireAvail(w)'
                 /\ ~HasEntry(n, w)'
      ]_vars

\* a wire was released by unbindWire while another wire stays bound
\* directly with a strength other than "none"
C15_Witness ==
    /\ ~fatal
    /\ call.op = "unbindWire"
    /\ checkWireAvail(call.id)
    /\ \E w \in Wires, n \in Nets :
          /\ getBoundWireNet(w) = n
          /\ HasEntry(n, w)
          /\ net_wires[n][w] = [pip |-> NoPip, strength |-> "STRENGTH_WEAK"]

\* C16: whenever the availability query is true for a non-null handle, the
\* bind call on that handle completes without a fatal check (sites, wires
\* and pips).
C16_AvailableImpliesBindable ==
    [][ /\ (call'.op = "bindBel" /\ call'.id # NoBel /\ checkBelAvail(call'.id)) => ~fatal'
        /\ (call'.op = "bindWire" /\ call'.id # NoWire /\ checkWireAvail(call'.id)) => ~fatal'
        /\ (call'.op = "bindPip" /\ call'.id # NoPip /\ checkPipAvail(call'.id)) => ~fatal'
      ]_vars

\* C19: without a fatal check, a wire-set entry of net n for wire w with a
\* driver p means p is owned by n and has destination w; and a pip owned by
\* n is recorded as the driver in n's entry for its destination wire.
C19_DriverAgreesWithPipOwner ==
    ~fatal =>
        /\ \A n \in Nets, w \in Wires :
              (HasEntry(n, w) /\ net_wires[n][w].pip # NoPip) =>
                  /\ getBoundPipNet(net_wires[n][w].pip) = n
                  /\ getPipDstWire(net_wires[n][w].pip) = w
        /\ \A p \in Pips, n \in Nets :
              (getBoundPipNet(p) = n) =>
                  /\ HasEntry(n, getPipDstWire(p))
                  /\ net_wires[n][getPipDstWire(p)].pip = p

\* a pip drives its wire while the pip sharing that destination was bound
\* and released before, and the other wire is bound without driver
C19_Witness ==
    /\ ~fatal
    /\ \E p, q \in Pips, n \in Nets :
          /\ p # q
          /\ getPipDstWire(p) = getPipDstWire(q)
          /\ getBoundPipNet(p) = n
          /\ net_wires[n][getPipDstWire(p)].pip = p
          /\ q \in DOMAIN base_pip2net /\ base_pip2net[q] = nullptr
    /\ \E w \in Wires, n \in Nets : HasEntry(n, w) /\ net_wires[n][w].pip = NoPip

\* C20: a successful bindPip(p,n,st) followed by unbindPip(p) or by
\* unbindWire(dst(p)): the release completes and the owner reported for
\* every wire and pip and every net's wire-set are what they were before the
\* bindPip, the same on both paths.
C20_ReleaseUndoesBindPip ==
    [][\A p \in Pips :
        ( /\ call.op = "bindPip" /\ call.id = p /\ ~fatal
          /\ \/ call'.op = "unbindPip" /\ call'.id = p
             \/ call'.op = "unbindWire" /\ call'.id = getPipDstWire(p) )
        => /\ ~fatal'
           /\ BindingState' = before_bindPip
      ]_vars

\* a pip bound while another wire was owned has just been released through
\* unbindWire of its destination wire
C20_Witness ==
    /\ ~fatal
    /\ call.op = "unbindWire"
    /\ before_bindPip # NoSnapshot
    /\ BindingState = before_bindPip
    /\ \E w \in Wires : getBoundWireNet(w) # nullptr
\* ================================================================ frames
\* C17: once both indices are built, no later call changes cell_types,
\* bel_buckets or any bucket's list, a further init call included.
C17_IndicesImmutable ==
    [][ (cell_types_initialised /\ bel_buckets_initialised)
        => UNCHANGED <<cell_types, bel_buckets, bucket_bels>>
      ]_vars

\* what is reported about wire w: its owner and its entry in every wire-set
WireView(w) ==
    <<getBoundWireNet(w), [n \in Nets |-> IF HasEntry(n, w) THEN {net_wires[n][w]} ELSE {}]>>

SiteOwners == [b \in Bels |-> getBoundBelCell(b)]
WireViews == [w \in Wires |-> WireView(w)]
PipOwners == [p \in Pips |-> getBoundPipNet(p)]

\* the driver recorded for wire w by its owner, NoPip when there is none
DriverOf(w) ==
    IF getBoundWireNet(w) # nullptr /\ HasEntry(getBoundWireNet(w), w)
    THEN net_wires[getBoundWireNet(w)][w].pip
    ELSE NoPip

\* C18: a successful bindBel/unbindBel(s) changes the owner of no other
\* site, no wire, no pip, no wire-set; bindWire(w) changes no other wire and
\* no pip or site owner; unbindWire(w) changes no other wire and no pip but
\* w's recorded driver; bindPip/unbindPip(p) change no other pip, no wire
\* but dst(p), no site owner; queries change nothing.
C18_FrameOfBindUnbind ==
    [][ ~fatal' =>
         /\ call'.op \in {"bindBel", "unbindBel"} =>
               /\ \A b \in Bels \ {call'.id} : getBoundBelCell(b)' = getBoundBelCell(b)
               /\ WireViews' = WireViews
               /\ PipOwners' = PipOwners
               /\ net_wires' = net_wires
         /\ call'.op = "bindWire" =>
               /\ \A w \in Wires \ {call'.id} : WireView(w)' = WireView(w)
               /\ PipOwners' = PipOwners
               /\ SiteOwners' = SiteOwners
         /\ call'.op = "unbindWire" =>
               /\ \A w \in Wires \ {call'.id} : WireView(w)' = WireView(w)
               /\ \A p \in Pips \ {DriverOf(call'.id)} : getBoundPipNet(p)' = getBoundPipNet(p)
               /\ SiteOwners' = SiteOwners
         /\ call'.op \in {"bindPip", "unbindPip"} =>
               /\ \A p \in Pips \ {call'.id} : getBoundPipNet(p)' = getBoundPipNet(p)
               /\ \A w \in Wires \ {getPipDstWire(call'.id)} : WireView(w)' = WireView(w)
               /\ SiteOwners' = SiteOwners
         /\ call'.op \in QueryOps =>
               /\ SiteOwners' = SiteOwners
               /\ WireViews' = WireViews
               /\ PipOwners' = PipOwners
               /\ UNCHANGED <<belVars, routeVars>>
      ]_vars

\* a pip has just been released while a site is owned and the other wire is
\* owned through its own pip by the same net
C18_Witness ==
    /\ ~fatal
    /\ call.op = "unbindPip"
    /\ getBoundPipNet(call.id) = nullptr
    /\ call.id \in DOMAIN base_pip2net
    /\ \E b \in Bels : getBoundBelCell(b) # nullptr
    /\ \E q \in Pips :
          /\ getPipDstWire(q) # getPipDstWire(call.id)
          /\ getBoundPipNet(q) # nullptr
          /\ DriverOf(getPipDstWire(q)) = q
          /\ \E n \in Nets : n = getBoundPipNet(q) /\ Cardinality(DOMAIN net_wires[n]) = 1
====
